---- MODULE Spec2Model ----
(***************************************************************************)
(* Model of app.py: the startup font resolution, the /convert handler      *)
(* (upload validation, decoding, parsing, the per-cue loop, the response)  *)
(* and create_tiff_from_subtitle (blank-line filtering, measuring, layout, *)
(* drawing, encoding).                                                     *)
(*                                                                         *)
(* Text is a sequence of characters.  The characters are " " (whitespace), *)
(* "l" (a Latin letter), "ar" (an Arabic letter in logical form) and "AR"  *)
(* (the same letter in its contextual presentation form).                  *)
(* Library calls that can raise (Image.new, reshape, draw.textlength,      *)
(* draw.text, image.save, ZipFile.writestr, send_file) take their outcome  *)
(* from a fault chosen by the environment.                                 *)
(***************************************************************************)
EXTENDS Integers, Sequences, FiniteSets, TLC

\* ------------------------------------------------------------- bounds
\* Largest number of cues in a parsed document.
MaxCues == 2
\* Largest number of lines subtitle.content splits into.
MaxLines == 2

\* ------------------------------------------------- program constants
IMAGE_WIDTH == 720
IMAGE_HEIGHT == 480
FONT_SIZE == 26
LINE_SPACING == 10
\* the literal 20 of "y = IMAGE_HEIGHT - total_height - 20"
BOTTOM_MARGIN == 20
\* the width of the format spec in f"subtitle_{index:04d}.tiff"
PAD_WIDTH == 4

\* ------------------------------------------------------------ values
\* Python values, tagged by type.
None == [t |-> "None"]
Str(s) == [t |-> "str", v |-> s]
BytesIO(img) == [t |-> "BytesIO", v |-> img]

\* bool(value): None and the empty string are false, a BytesIO object is
\* always true (it defines neither __bool__ nor __len__).
Truthy(val) ==
    CASE val.t = "None" -> FALSE
      [] val.t = "str" -> val.v # <<>>
      [] OTHER -> TRUE

LogRec(level, msg) == [level |-> level, msg |-> msg]

\* ------------------------------------------------------ text helpers
Whitespace == {" "}

RECURSIVE LStrip(_)
LStrip(s) ==
    IF s = <<>> THEN <<>>
    ELSE IF Head(s) \in Whitespace THEN LStrip(Tail(s)) ELSE s

Reverse(s) == [i \in 1..Len(s) |-> s[Len(s) + 1 - i]]

\* str.strip(): leading and trailing whitespace removed.
Strip(s) == Reverse(LStrip(Reverse(LStrip(s))))

\* arabic_reshaper.reshape: Arabic letters take their presentation form,
\* every other character is kept; the order is not changed.
Reshape(line) ==
    [i \in 1..Len(line) |-> IF line[i] = "ar" THEN "AR" ELSE line[i]]

IsArabic(ch) == ch \in {"ar", "AR"}
IsStrong(ch) == ch \notin Whitespace

\* bidi get_display: the paragraph direction is that of the first strong
\* character; a right-to-left paragraph is laid out from the right, which
\* for runs of one character is the reversed sequence.
GetDisplay(line) ==
    LET strong == {i \in 1..Len(line) : IsStrong(line[i])}
        first == IF strong = {} THEN 0
                 ELSE CHOOSE i \in strong : \A j \in strong : i <= j
    IN  IF first # 0 /\ IsArabic(line[first]) THEN Reverse(line) ELSE line

\* Advance width of one glyph in the resolved font, in pixels.  The
\* built-in default face has no Arabic glyphs and draws a narrower box.
Advance(fnt, ch) ==
    CASE ch \in Whitespace -> 6
      [] ch = "l" -> 14
      [] OTHER -> IF fnt = "default" THEN 8 ELSE 18

RECURSIVE TextLength(_, _)
\* draw.textlength(text, font=font)
TextLength(fnt, text) ==
    IF text = <<>> THEN 0
    ELSE Advance(fnt, Head(text)) + TextLength(fnt, Tail(text))

RECURSIVE Split(_)
\* str.split('\n'): the pieces between line breaks, at least one piece
Split(s) ==
    IF s = <<>> THEN << <<>> >>
    ELSE LET rest == Split(Tail(s))
         IN  IF Head(s) = "\n" THEN << <<>> >> \o rest
             ELSE << <<Head(s)>> \o Head(rest) >> \o Tail(rest)

RECURSIVE Join(_)
\* "\n".join(lines), used to build the cue texts the parser delivers
Join(ls) ==
    IF Len(ls) = 1 THEN ls[1] ELSE ls[1] \o <<"\n">> \o Join(Tail(ls))

Max(a, b) == IF a >= b THEN a ELSE b

RECURSIVE Digits(_)
\* decimal digits of a natural number, most significant first
Digits(n) ==
    LET d == <<"0", "1", "2", "3", "4", "5", "6", "7", "8", "9">>
    IN  IF n < 10 THEN <<d[n + 1]>> ELSE Digits(n \div 10) \o <<d[(n % 10) + 1]>>

RECURSIVE ZeroPad(_, _)
\* the "0w d" format: zeros on the left up to the width, never truncated
ZeroPad(ds, width) == IF Len(ds) >= width THEN ds ELSE ZeroPad(<<"0">> \o ds, width)

\* variant: the index written without padding
FilenameBad(index) == <<"subtitle_">> \o Digits(index) \o <<".tiff">>
\* f"subtitle_{index:04d}.tiff"
Filename(index) == <<"subtitle_">> \o ZeroPad(Digits(index), PAD_WIDTH) \o <<".tiff">>

\* ------------------------------------------- create_tiff_from_subtitle
\* What the environment makes fail during one call: nothing, or one library
\* call (for the per-line calls, the call for line number `at`).
NoFault == [kind |-> "none", at |-> 0]
Faults ==
    {NoFault}
    \cup {[kind |-> k, at |-> 0] : k \in {"image", "shape", "save", "write"}}
    \cup {[kind |-> k, at |-> i] : k \in {"measure", "draw"}, i \in 1..MaxLines}

\* variant: "if line", only the empty lines are dropped
IsRetainedBad(line) == line # <<>>
\* "for line in lines if line.strip()": the lines that are kept
IsRetained(line) == Strip(line) # <<>>

RECURSIVE KeepRetained(_)
KeepRetained(ls) ==
    IF ls = <<>> THEN <<>>
    ELSE (IF IsRetained(Head(ls)) THEN <<Head(ls)>> ELSE <<>>) \o KeepRetained(Tail(ls))

\* lines = arabic_text.split('\n'), filtered by "if line.strip()"
RetainedLines(content) == KeepRetained(Split(content))

\* processed_lines: (reshape(line), get_display(reshape(line))) per kept line
ProcessedLines(content) ==
    LET kept == RetainedLines(content)
    IN  [i \in 1..Len(kept) |-> <<Reshape(kept[i]), GetDisplay(Reshape(kept[i]))>>]

\* variant: a line spacing counted after the last line too
TotalHeightBad(n) == n * (FONT_SIZE + LINE_SPACING)
\* total_height = len(processed_lines) * FONT_SIZE + (len(processed_lines) - 1) * LINE_SPACING
TotalHeight(n) == n * FONT_SIZE + (n - 1) * LINE_SPACING

RECURSIVE MaxWidth(_, _, _)
\* the measuring loop over the first k lines: max_width starts at 0
MaxWidth(fnt, processed, k) ==
    IF k = 0 THEN 0
    ELSE Max(MaxWidth(fnt, processed, k - 1), TextLength(fnt, processed[k][2]))

\* variant: the margin taken from the first line instead of the widest
StartXBad(fnt, processed) == (IMAGE_WIDTH - TextLength(fnt, processed[1][2])) \div 2
\* x = (IMAGE_WIDTH - max_width) / 2, one value shared by every line.  The
\* advances are even, so the division is exact.
StartX(fnt, processed) == (IMAGE_WIDTH - MaxWidth(fnt, processed, Len(processed))) \div 2

\* y = IMAGE_HEIGHT - total_height - 20
StartY(n) == IMAGE_HEIGHT - TotalHeight(n) - BOTTOM_MARGIN

\* The draw.text calls that complete when the first k lines are drawn:
\* line i at (x, y) with y advanced by FONT_SIZE + LINE_SPACING per line.
DrawCalls(fnt, processed, k) ==
    [i \in 1..k |->
        [text |-> processed[i][2],
         x |-> StartX(fnt, processed),
         y |-> StartY(Len(processed)) + (i - 1) * (FONT_SIZE + LINE_SPACING)]]

Outcome(ret, cause, draws, logs) ==
    [ret |-> ret, cause |-> cause, draws |-> draws, logs |-> logs]

\* create_tiff_from_subtitle(subtitle, index) with the resolved font and
\* the fault of this call: the returned pair, the draw.text calls that
\* completed on the image, and the records logged.
\* create_tiff_from_subtitle(subtitle, index) with the resolved font and
\* the fault of this call gives the returned pair, the cause of a failure,
\* the draw.text calls that completed on the image, and the records logged.

\* if not processed_lines: logger.warning(...); return None, None
EmptyContent(draws) ==
    Outcome(<<None, None>>, "empty", draws,
            <<LogRec("warning", "Empty subtitle content")>>)

\* variant: a measuring failure logged as an empty cue
MeasureFailedBad(draws) ==
    Outcome(<<None, None>>, "measure", draws,
            <<LogRec("warning", "Empty subtitle content")>>)
\* draw.textlength raises: logger.error(...); return None, None
MeasureFailed(draws) ==
    Outcome(<<None, None>>, "measure", draws,
            <<LogRec("error", "Failed to measure text width")>>)

\* draw.text raises: logger.error(...); return None, None
DrawFailed(draws) ==
    Outcome(<<None, None>>, "draw", draws,
            <<LogRec("error", "Failed to draw text")>>)

\* the outer "except Exception": logger.error(...); return None, None
CreationFailed(draws) ==
    Outcome(<<None, None>>, "exception", draws,
            <<LogRec("error", "Image creation failed")>>)

CreateTiff(content, index, fnt, fault) ==
    LET processed == ProcessedLines(content)
        n == Len(processed)
    IN  IF fault.kind = "image" THEN CreationFailed(<<>>)
        ELSE IF fault.kind = "shape" /\ n > 0 THEN CreationFailed(<<>>)
        ELSE IF n = 0 THEN EmptyContent(<<>>)
        ELSE IF fault.kind = "measure" /\ fault.at <= n THEN MeasureFailed(<<>>)
        ELSE IF fault.kind = "draw" /\ fault.at <= n
            THEN DrawFailed(DrawCalls(fnt, processed, fault.at - 1))
        ELSE IF fault.kind = "save" THEN CreationFailed(DrawCalls(fnt, processed, n))
        ELSE
            Outcome(<<BytesIO("TIFF"), Str(Filename(index))>>, "ok",
                    DrawCalls(fnt, processed, n), <<>>)

\* ------------------------------------------------------------ inputs
\* One line of cue text: empty, whitespace only, Latin, Arabic then Latin.
LineTexts == {<<>>, <<" ">>, <<"l">>, <<"ar", "l">>}

RECURSIVE SeqsUpTo(_, _)
\* the sequences over S of length 1..n
SeqsUpTo(S, n) ==
    IF n = 0 THEN {}
    ELSE LET shorter == SeqsUpTo(S, n - 1)
         IN  {<<x>> : x \in S} \cup shorter \cup {Append(q, x) : q \in shorter, x \in S}

\* subtitle.content of a cue: 1..MaxLines lines joined by line breaks
Contents == {Join(ls) : ls \in SeqsUpTo(LineTexts, MaxLines)}

\* The decoded text of an upload: whether it follows the SRT grammar and,
\* when it does, how many cues it holds.
Texts == {[wellformed |-> FALSE, cues |-> 0]}
         \cup {[wellformed |-> TRUE, cues |-> n] : n \in 0..MaxCues}

\* The uploaded bytes: an optional byte-order mark, then either a byte
\* sequence that is not UTF-8 or the encoding of a text.  The uploads with
\* a byte-order mark are the invalid one and the texts of at most one cue.
Bom == [b |-> "BOM"]
Invalid == [b |-> "invalid"]
Encoded(text) == [b |-> "text", v |-> text]
ByteSeqs ==
    {<<Invalid>>, <<Bom, Invalid>>}
    \cup {<<Encoded(t)>> : t \in Texts}
    \cup {<<Bom, Encoded(t)>> : t \in {u \in Texts : u.cues <= 1}}

Filenames == {<<>>, <<"a", ".", "S", "R", "T">>, <<"a", ".", "t", "x", "t">>}

\* request.files: no srt_file part, or a part with a filename and bytes
NoUpload == [present |-> FALSE, filename |-> <<>>, bytes |-> <<>>]
Uploads ==
    {NoUpload}
    \cup {[present |-> TRUE, filename |-> f, bytes |-> b] : f \in Filenames, b \in ByteSeqs}

\* str.lower() on the characters a filename is made of
Lower(s) ==
    [i \in 1..Len(s) |->
        CASE s[i] = "S" -> "s" [] s[i] = "R" -> "r" [] s[i] = "T" -> "t" [] OTHER -> s[i]]

\* str.endswith(suffix)
EndsWith(s, suffix) ==
    /\ Len(s) >= Len(suffix)
    /\ SubSeq(s, Len(s) - Len(suffix) + 1, Len(s)) = suffix

\* srt_file.filename.lower().endswith('.srt')
HasSrtExtension(filename) == EndsWith(Lower(filename), <<".", "s", "r", "t">>)

\* variant: only the first byte is examined
DecodeFailsBad(bytes) == bytes[1] = Invalid
\* bytes.decode('utf-8-sig') raises UnicodeDecodeError
DecodeFails(bytes) == \E i \in 1..Len(bytes) : bytes[i] = Invalid

\* bytes.decode('utf-8-sig'): a leading byte-order mark is dropped.  (Bytes
\* that are not UTF-8 have no decoding; were they let through, the result
\* would not be SRT.)
Decode(bytes) ==
    LET body == IF bytes # <<>> /\ Head(bytes) = Bom THEN Tail(bytes) ELSE bytes
    IN  IF body[1].b = "text" THEN body[1].v ELSE [wellformed |-> FALSE, cues |-> 0]

\* ------------------------------------------------------------ state
VARIABLES
    fontPc,         \* position in the module-level font code
    font,           \* the module global font
    fontTried,      \* the candidates whose load was attempted, in order
    fontLog,        \* the records logged by the font code
    pc,             \* position of the /convert handler
    upload,         \* the request's upload
    decoded,        \* whether .decode was called for this request
    srt_content,    \* the decoded text
    parsed,         \* whether srt.parse was called for this request
    n_subtitles,    \* len(subtitles)
    index,          \* the loop variable index
    subtitle,       \* the loop variable subtitle (its content)
    attempted,      \* the indices passed to create_tiff_from_subtitle
    last,           \* the outcome of create_tiff_from_subtitle for this cue
    artifacts,      \* number of calls that returned an artifact
    archive,        \* the entries written to zip_file, in order
    written,        \* the indices of the cues counted in valid_files
    valid_files,    \* the counter valid_files
    skip_logs,      \* number of "Skipped ..." / "Unexpected error ..." records
    response,       \* what the handler returned
    prev            \* the previous completed conversion, when recorded

vars == <<fontPc, font, fontTried, fontLog, pc, upload, decoded, srt_content,
          parsed, n_subtitles, index, subtitle, attempted, last, artifacts,
          archive, written, valid_files, skip_logs, response, prev>>

fontVars == <<fontPc, font, fontTried, fontLog>>
loopVars == <<n_subtitles, index, subtitle, attempted, last, artifacts,
              archive, written, valid_files, skip_logs>>

Resp(status, text, file) == [status |-> status, text |-> text, file |-> file]
NoResponse == Resp(0, "", <<>>)
NoText == [wellformed |-> FALSE, cues |-> 0]
NoCall == Outcome(<<None, None>>, "none", <<>>, <<>>)
NoPrev == [response |-> NoResponse, succeeded |-> 0, skipped |-> 0]

RequestInit ==
    /\ pc = "idle"
    /\ upload = NoUpload
    /\ decoded = FALSE
    /\ srt_content = NoText
    /\ parsed = FALSE
    /\ n_subtitles = 0
    /\ index = 0
    /\ subtitle = <<>>
    /\ attempted = <<>>
    /\ last = NoCall
    /\ artifacts = 0
    /\ archive = <<>>
    /\ written = <<>>
    /\ valid_files = 0
    /\ skip_logs = 0
    /\ response = NoResponse

Init ==
    /\ fontPc = "amiri"
    /\ font = "unset"
    /\ fontTried = <<>>
    /\ fontLog = <<>>
    /\ RequestInit
    /\ prev = NoPrev

requestVars == <<pc, upload, decoded, srt_content, parsed, n_subtitles, index,
                 subtitle, attempted, last, artifacts, archive, written,
                 valid_files, skip_logs, response>>

\* ------------------------------------------------- font resolution
\* variant: the fallback is tried although the first candidate loaded
LoadAmiriOkContinues ==
    /\ fontPc = "amiri"
    /\ fontTried' = Append(fontTried, "Amiri")
    /\ font' = "Amiri"
    /\ fontLog' = Append(fontLog, LogRec("info", "Successfully loaded font"))
    /\ fontPc' = "arial"
    /\ UNCHANGED <<requestVars, prev>>

\* ImageFont.truetype(<Amiri-Regular.ttf>) succeeds
LoadAmiriOk ==
    /\ fontPc = "amiri"
    /\ fontTried' = Append(fontTried, "Amiri")
    /\ font' = "Amiri"
    /\ fontLog' = Append(fontLog, LogRec("info", "Successfully loaded font"))
    /\ fontPc' = "ready"
    /\ UNCHANGED <<requestVars, prev>>

\* ImageFont.truetype(<Amiri-Regular.ttf>) raises
LoadAmiriFail ==
    /\ fontPc = "amiri"
    /\ fontTried' = Append(fontTried, "Amiri")
    /\ fontLog' = Append(fontLog, LogRec("warning", "Failed to load Amiri font"))
    /\ fontPc' = "arial"
    /\ UNCHANGED <<font, requestVars, prev>>

\* ImageFont.truetype("arial.ttf") succeeds
LoadArialOk ==
    /\ fontPc = "arial"
    /\ fontTried' = Append(fontTried, "Arial")
    /\ font' = "Arial"
    /\ fontLog' = Append(fontLog, LogRec("info", "Fell back to Arial font"))
    /\ fontPc' = "ready"
    /\ UNCHANGED <<requestVars, prev>>

\* ImageFont.truetype("arial.ttf") raises: ImageFont.load_default()
LoadArialFail ==
    /\ fontPc = "arial"
    /\ fontTried' = fontTried \o <<"Arial", "default">>
    /\ font' = "default"
    /\ fontLog' = Append(fontLog, LogRec("warning", "Using default font"))
    /\ fontPc' = "ready"
    /\ UNCHANGED <<requestVars, prev>>

\* ------------------------------------------------- the /convert handler
Done(resp) ==
    /\ response' = resp
    /\ pc' = "done"

\* A request arrives; the module code has run before the server starts.
Receive ==
    /\ pc = "idle"
    /\ fontPc = "ready"
    /\ \E u \in Uploads : upload' = u
    /\ pc' = "validate"
    /\ UNCHANGED <<fontVars, decoded, srt_content, parsed, loopVars, response, prev>>

\* if 'srt_file' not in request.files
RejectNoFile ==
    /\ pc = "validate"
    /\ ~upload.present
    /\ Done(Resp(400, "No file uploaded", <<>>))
    /\ UNCHANGED <<fontVars, upload, decoded, srt_content, parsed, loopVars, prev>>

\* if not srt_file or srt_file.filename == ''
RejectNoSelection ==
    /\ pc = "validate"
    /\ upload.present
    /\ upload.filename = <<>>
    /\ Done(Resp(400, "No selected file", <<>>))
    /\ UNCHANGED <<fontVars, upload, decoded, srt_content, parsed, loopVars, prev>>

\* if not srt_file.filename.lower().endswith('.srt')
RejectExtension ==
    /\ pc = "validate"
    /\ upload.present
    /\ upload.filename # <<>>
    /\ ~HasSrtExtension(upload.filename)
    /\ Done(Resp(400, "Only SRT files are allowed", <<>>))
    /\ UNCHANGED <<fontVars, upload, decoded, srt_content, parsed, loopVars, prev>>

\* the three checks pass
AcceptFile ==
    /\ pc = "validate"
    /\ upload.present
    /\ upload.filename # <<>>
    /\ HasSrtExtension(upload.filename)
    /\ pc' = "decode"
    /\ UNCHANGED <<fontVars, upload, decoded, srt_content, parsed, loopVars, response, prev>>

\* srt_file.read().decode('utf-8-sig') raises UnicodeDecodeError
DecodeError ==
    /\ pc = "decode"
    /\ DecodeFails(upload.bytes)
    /\ decoded' = TRUE
    /\ Done(Resp(400, "Invalid file encoding (use UTF-8)", <<>>))
    /\ UNCHANGED <<fontVars, upload, srt_content, parsed, loopVars, prev>>

\* srt_content = srt_file.read().decode('utf-8-sig')
DecodeOk ==
    /\ pc = "decode"
    /\ ~DecodeFails(upload.bytes)
    /\ decoded' = TRUE
    /\ srt_content' = Decode(upload.bytes)
    /\ pc' = "parse"
    /\ UNCHANGED <<fontVars, upload, parsed, loopVars, response, prev>>

\* list(srt.parse(srt_content)) raises
ParseError ==
    /\ pc = "parse"
    /\ ~srt_content.wellformed
    /\ parsed' = TRUE
    /\ Done(Resp(400, "Invalid SRT file format", <<>>))
    /\ UNCHANGED <<fontVars, upload, decoded, srt_content, loopVars, prev>>

\* subtitles = list(srt.parse(srt_content)); zip_buffer, valid_files = 0 and
\* the ZipFile are set up.  No step reads a cue before its own iteration,
\* so the text of each cue is supplied when the loop reaches it.
ParseOk ==
    /\ pc = "parse"
    /\ srt_content.wellformed
    /\ parsed' = TRUE
    /\ n_subtitles' = srt_content.cues
    /\ valid_files' = 0
    /\ archive' = <<>>
    /\ pc' = "loop"
    /\ UNCHANGED <<fontVars, upload, decoded, srt_content, index, subtitle,
                   attempted, last, artifacts, written, skip_logs, response, prev>>

\* for index, subtitle in enumerate(subtitles, 1): the next cue is bound
FetchCue ==
    /\ pc = "loop"
    /\ index < n_subtitles
    /\ index' = index + 1
    /\ \E c \in Contents : subtitle' = c
    /\ last' = NoCall
    /\ pc' = "call"
    /\ UNCHANGED <<fontVars, upload, decoded, srt_content, parsed, n_subtitles,
                   attempted, artifacts, archive, written, valid_files,
                   skip_logs, response, prev>>

\* if tiff_buffer and filename
Accepts(ret) == Truthy(ret[1]) /\ Truthy(ret[2])

\* variant: the entry named after its position in the archive
WriteEntryBad(arch, ret) ==
    Append(arch, [name |-> Filename(Len(arch) + 1), data |-> ret[1].v])
\* zip_file.writestr(filename, tiff_buffer.getvalue())
WriteEntry(arch, ret) == Append(arch, [name |-> ret[2].v, data |-> ret[1].v])

\* the call of create_tiff_from_subtitle in the loop body
Call(fault) ==
    /\ pc = "call"
    /\ last' = CreateTiff(subtitle, index, font, fault)
    /\ attempted' = Append(attempted, index)
    /\ artifacts' = IF last'.cause = "ok" THEN artifacts + 1 ELSE artifacts

\* where the loop goes after an iteration (the progress record logged every
\* 100 cues changes nothing the handler reads)
AfterCue == "loop"

\* the artifact is written to the archive and counted
CueWritten ==
    /\ \E fault \in Faults :
        /\ fault.kind # "write"
        /\ Call(fault)
    /\ Accepts(last'.ret)
    /\ archive' = WriteEntry(archive, last'.ret)
    /\ written' = Append(written, index)
    /\ valid_files' = valid_files + 1
    /\ pc' = AfterCue
    /\ UNCHANGED <<fontVars, upload, decoded, srt_content, parsed, n_subtitles,
                   index, subtitle, skip_logs, response, prev>>

\* else: logger.warning("Skipped subtitle ... due to processing error")
CueSkipped ==
    /\ \E fault \in Faults : Call(fault)
    /\ ~Accepts(last'.ret)
    /\ skip_logs' = skip_logs + 1
    /\ pc' = AfterCue
    /\ UNCHANGED <<fontVars, upload, decoded, srt_content, parsed, n_subtitles,
                   index, subtitle, archive, written, valid_files, response, prev>>

\* variant: no try/except around the loop body, the exception reaches the
\* handler's outer except
CueRaisedAborts ==
    /\ \E fault \in Faults :
        /\ fault.kind = "write"
        /\ Call(fault)
    /\ Accepts(last'.ret)
    /\ Done(Resp(500, "Internal server error", <<>>))
    /\ UNCHANGED <<fontVars, upload, decoded, srt_content, parsed, n_subtitles,
                   index, subtitle, archive, written, valid_files, skip_logs, prev>>

\* variant: the exception is swallowed without a log record
CueRaisedSilent ==
    /\ \E fault \in Faults :
        /\ fault.kind = "write"
        /\ Call(fault)
    /\ Accepts(last'.ret)
    /\ pc' = "loop"
    /\ UNCHANGED <<fontVars, upload, decoded, srt_content, parsed, n_subtitles,
                   index, subtitle, archive, written, valid_files, skip_logs,
                   response, prev>>

\* tiff_buffer.getvalue() or zip_file.writestr raises before the entry is
\* written: except Exception: logger.error("Unexpected error ..."); continue
CueRaised ==
    /\ \E fault \in Faults :
        /\ fault.kind = "write"
        /\ Call(fault)
    /\ Accepts(last'.ret)
    /\ skip_logs' = skip_logs + 1
    /\ pc' = AfterCue
    /\ UNCHANGED <<fontVars, upload, decoded, srt_content, parsed, n_subtitles,
                   index, subtitle, archive, written, valid_files, response, prev>>

\* if valid_files == 0: return "No valid subtitles could be processed", 400
FinishEmpty ==
    /\ pc = "loop"
    /\ index >= n_subtitles
    /\ valid_files = 0
    /\ Done(Resp(400, "No valid subtitles could be processed", <<>>))
    /\ UNCHANGED <<fontVars, upload, decoded, srt_content, parsed, loopVars, prev>>

\* return send_file(zip_buffer, ..., download_name='arabic_subtitles.zip')
FinishArchive ==
    /\ pc = "loop"
    /\ index >= n_subtitles
    /\ valid_files # 0
    /\ Done(Resp(200, "arabic_subtitles.zip", archive))
    /\ UNCHANGED <<fontVars, upload, decoded, srt_content, parsed, loopVars, prev>>

\* send_file raises: except Exception: return "Internal server error", 500
FinishError ==
    /\ pc = "loop"
    /\ index >= n_subtitles
    /\ valid_files # 0
    /\ Done(Resp(500, "Internal server error", <<>>))
    /\ UNCHANGED <<fontVars, upload, decoded, srt_content, parsed, loopVars, prev>>

\* the request-scoped state of a fresh request
ResetRequest ==
    /\ pc' = "idle"
    /\ upload' = NoUpload
    /\ decoded' = FALSE
    /\ srt_content' = NoText
    /\ parsed' = FALSE
    /\ n_subtitles' = 0
    /\ index' = 0
    /\ subtitle' = <<>>
    /\ attempted' = <<>>
    /\ last' = NoCall
    /\ artifacts' = 0
    /\ archive' = <<>>
    /\ written' = <<>>
    /\ valid_files' = 0
    /\ skip_logs' = 0
    /\ response' = NoResponse

\* The handler has returned; the server waits for the next request.
NextRequest ==
    /\ pc = "done"
    /\ ResetRequest
    /\ UNCHANGED <<fontVars, prev>>

\* whether the request ran the per-cue loop to its end
Completed ==
    /\ pc = "done"
    /\ parsed
    /\ srt_content.wellformed
    /\ response.status # 500

\* As NextRequest, keeping what the completed conversion handed back next
\* to its counts, to compare it with the next request's.
NextRequestRecorded ==
    /\ pc = "done"
    /\ ResetRequest
    /\ prev' = IF Completed
               THEN [response |-> response, succeeded |-> valid_files,
                     skipped |-> n_subtitles - valid_files]
               ELSE prev
    /\ UNCHANGED fontVars

Steps ==
    \/ LoadAmiriOk \/ LoadAmiriFail \/ LoadArialOk \/ LoadArialFail
    \/ Receive
    \/ RejectNoFile \/ RejectNoSelection \/ RejectExtension \/ AcceptFile
    \/ DecodeError \/ DecodeOk
    \/ ParseError \/ ParseOk
    \/ FetchCue
    \/ CueWritten \/ CueSkipped \/ CueRaised
    \/ FinishEmpty \/ FinishArchive \/ FinishError

Next == Steps \/ NextRequest

Spec == Init /\ [][Next]_vars

NextRecorded == Steps \/ NextRequestRecorded

SpecRecorded == Init /\ [][NextRecorded]_vars

\* ------------------------------------------------------------ claims
RECURSIVE DigitsValue(_)
\* the number a sequence of decimal digits writes
DigitsValue(ds) ==
    IF ds = <<>> THEN 0
    ELSE LET d == Head(ds)
             v == CHOOSE k \in 0..9 : <<"0", "1", "2", "3", "4", "5", "6", "7", "8", "9">>[k + 1] = d
         IN  v * (10 ^ (Len(ds) - 1)) + DigitsValue(Tail(ds))

\* the digits of an entry name, between its first and last piece
NameDigits(name) == SubSeq(name, 2, Len(name) - 1)
NameIndex(name) == DigitsValue(NameDigits(name))

EmptyArchiveError == Resp(400, "No valid subtitles could be processed", <<>>)
EncodingError == Resp(400, "Invalid file encoding (use UTF-8)", <<>>)
FormatError == Resp(400, "Invalid SRT file format", <<>>)

\* the per-cue loop has started (the document parsed)
InLoop == parsed /\ srt_content.wellformed
\* the per-cue loop has finished
LoopFinished == InLoop /\ pc \in {"loop", "done"} /\ index >= n_subtitles
\* create_tiff_from_subtitle has returned for the current cue
Called == InLoop /\ last.cause # "none"

\* C1 as stated: with M the number of cues for which
\* create_tiff_from_subtitle returned an artifact, the archive holds exactly
\* M entries when the loop finishes, entry k is named after the index of the
\* k-th counted cue, and the request ends with the empty-archive error
\* exactly when M = 0.
C1_ArchiveCountsReturnedArtifacts ==
    LoopFinished =>
        /\ Len(archive) = artifacts
        /\ \A k \in 1..Len(archive) : NameIndex(archive[k].name) = written[k]
        /\ pc = "done" => (response = EmptyArchiveError <=> artifacts = 0)

\* C1 amended: with M = valid_files, the number of cues whose artifact was
\* returned and whose archive write did not raise, the archive holds
\* exactly M entries, entry k is named after the original 1-based index of
\* the k-th such cue, and the request ends with the empty-archive error
\* exactly when M = 0.
C1_ArchiveCountsWrittenArtifacts ==
    InLoop =>
        /\ Len(archive) = valid_files
        /\ Len(written) = valid_files
        /\ valid_files <= artifacts
        /\ \A k \in 1..Len(archive) : NameIndex(archive[k].name) = written[k]
        /\ pc = "done" => (response = EmptyArchiveError <=> valid_files = 0)

\* a skipped first cue leaves the second cue its own number
C1_Witness ==
    /\ pc = "done"
    /\ n_subtitles = 2
    /\ written = <<2>>
    /\ artifacts = 1
    /\ response.status = 200

\* C2: every cue of the parsed document is passed to
\* create_tiff_from_subtitle exactly once, in document order, whatever the
\* earlier cues did; the loop always runs to the last cue, and the request
\* ends with the empty-archive error only when no cue succeeded.
C2_EveryCueAttempted ==
    InLoop =>
        /\ attempted = [i \in 1..Len(attempted) |-> i]
        /\ Len(attempted) = IF pc = "call" THEN index - 1 ELSE index
        /\ pc = "done" => Len(attempted) = n_subtitles
        /\ pc = "done" /\ written # <<>> => response.status # 400
        /\ response = EmptyArchiveError => written = <<>>

\* the first cue's write raised and the second cue was still processed
C2_Witness ==
    /\ pc = "done"
    /\ n_subtitles = 2
    /\ artifacts = 2
    /\ written = <<2>>
    /\ attempted = <<1, 2>>

\* every character of the cue text is whitespace or a line break
OnlyBlankLines(content) ==
    \A i \in 1..Len(content) : content[i] \in Whitespace \cup {"\n"}

\* C3: a cue whose text has no line left after dropping the empty and the
\* whitespace-only lines gets the no-render result (None, None), nothing is
\* drawn or encoded, and no archive entry is written for it.
C3_BlankCueNotRendered ==
    Called /\ OnlyBlankLines(subtitle) =>
        /\ last.ret = <<None, None>>
        /\ last.draws = <<>>
        /\ pc # "call" =>
            /\ \A k \in 1..Len(written) : written[k] # index
            /\ \A k \in 1..Len(archive) : NameIndex(archive[k].name) # index

\* a cue of one whitespace-only line and one empty line was skipped
C3_Witness ==
    /\ pc = "loop"
    /\ subtitle = <<" ", "\n">>
    /\ last.cause = "empty"
    /\ skip_logs = 1

BytesInvalid == \E i \in 1..Len(upload.bytes) : upload.bytes[i] = Invalid

\* C4: bytes that are not UTF-8, with or without a byte-order mark, end the
\* request at the decoding step with the encoding error, before srt.parse is
\* called; a text that does not parse ends it with the format error; in both
\* cases no cue is passed to create_tiff_from_subtitle, no archive entry is
\* written and no archive is returned.
C4_RequestFailuresBeforeCues ==
    /\ BytesInvalid =>
        /\ ~parsed
        /\ attempted = <<>> /\ archive = <<>> /\ last = NoCall
        /\ response.status # 200
        /\ decoded => pc = "done" /\ response = EncodingError
    /\ parsed /\ ~srt_content.wellformed =>
        /\ pc = "done" /\ response = FormatError
        /\ attempted = <<>> /\ archive = <<>> /\ last = NoCall

\* invalid bytes behind a byte-order mark were rejected at the decoding step
C4_Witness ==
    /\ pc = "done"
    /\ decoded
    /\ upload.bytes = <<Bom, Invalid>>
    /\ response = EncodingError

\* what create_tiff_from_subtitle returns for a cue with no retained line
NoRenderReturn == CreateTiff(<<>>, 1, "Amiri", NoFault).ret

\* C5 as stated: the value returned for a width-measurement or drawing
\* failure is never the value returned for a cue with no retained line.
C5_FailureKindsReturnDistinctValues ==
    Called /\ last.cause \in {"measure", "draw"} => last.ret # NoRenderReturn

\* C5 amended: a no-render and a measurement or drawing failure return the
\* same pair (None, None); they differ only in the record logged, a warning
\* "Empty subtitle content" for the no-render and an error for the failure.
C5_FailureKindsDifferOnlyInLog ==
    /\ Called /\ last.cause = "empty" =>
        /\ last.ret = <<None, None>>
        /\ last.logs = <<LogRec("warning", "Empty subtitle content")>>
    /\ Called /\ last.cause \in {"measure", "draw"} =>
        /\ last.ret = <<None, None>>
        /\ Len(last.logs) = 1
        /\ last.logs[1].level = "error"
        /\ last.logs[1].msg # "Empty subtitle content"

\* the measurement of a cue's line failed
C5_Witness ==
    /\ Called
    /\ last.cause = "measure"
    /\ last.ret = NoRenderReturn

\* the request ran the loop and returned an archive or the empty-archive error
Conversion == pc = "done" /\ InLoop /\ response.status # 500

\* C6 as stated: what a completed conversion hands back determines how many
\* cues succeeded and how many were skipped: two conversions that hand back
\* the same outcome have the same two counts.
C6_OutcomeCarriesCounts ==
    Conversion /\ prev.response = response =>
        /\ prev.succeeded = valid_files
        /\ prev.skipped = n_subtitles - valid_files

\* C6 amended: what a completed conversion hands back determines only how
\* many cues succeeded (the number of archive entries, or zero for the
\* empty-archive error); how many were skipped is not handed back, it is
\* only logged, one record per skipped cue, with succeeded + skipped = N.
C6_OutcomeCarriesSucceededOnly ==
    /\ Conversion =>
        /\ response.status = 200 => Len(response.file) = valid_files /\ valid_files > 0
        /\ response.status = 400 => response = EmptyArchiveError /\ valid_files = 0
        /\ prev.response = response => prev.succeeded = valid_files
    /\ LoopFinished => valid_files + skip_logs = n_subtitles

\* two conversions handed back the same archive with different skip counts
C6_Witness ==
    /\ Conversion
    /\ response.status = 200
    /\ prev.response = response
    /\ prev.skipped # n_subtitles - valid_files

\* the display text of the retained lines of the current cue
DisplayLines == [i \in 1..Len(RetainedLines(subtitle)) |->
                    GetDisplay(Reshape(RetainedLines(subtitle)[i]))]

\* C7 as stated: every line is drawn at x = (canvas width - its own
\* measured width) / 2.
C7_EachLineCenteredOnItsOwnWidth ==
    Called =>
        \A i \in 1..Len(last.draws) :
            2 * last.draws[i].x = IMAGE_WIDTH - TextLength(font, last.draws[i].text)

\* C7 amended: every line of a cue is drawn at the one x that centers the
\* widest retained line, x = (canvas width - widest measured width) / 2; a
\* line is centered on its own width only if it is as wide as the widest.
C7_LinesShareWidestLineMargin ==
    Called =>
        \A i \in 1..Len(last.draws) :
            /\ \A j \in 1..Len(DisplayLines) :
                2 * last.draws[i].x <= IMAGE_WIDTH - TextLength(font, DisplayLines[j])
            /\ \E j \in 1..Len(DisplayLines) :
                2 * last.draws[i].x = IMAGE_WIDTH - TextLength(font, DisplayLines[j])

\* a cue of a narrow line above a wider line was drawn
C7_Witness ==
    /\ Called
    /\ last.cause = "ok"
    /\ Len(last.draws) = 2
    /\ TextLength(font, last.draws[1].text) < TextLength(font, last.draws[2].text)

\* C8: the names of the archive entries are pairwise different and in
\* strictly increasing cue-index order, each "subtitle_" + the 1-based index
\* of its cue zero-padded to 4 digits + ".tiff".
C8_ArchiveNamesUniqueOrdered ==
    /\ \A k \in 1..Len(archive) :
        /\ Head(archive[k].name) = "subtitle_"
        /\ archive[k].name[Len(archive[k].name)] = ".tiff"
        /\ Len(NameDigits(archive[k].name)) = PAD_WIDTH
        /\ NameIndex(archive[k].name) = written[k]
        /\ written[k] \in 1..index
    /\ \A j, k \in 1..Len(archive) :
        j < k => /\ archive[j].name # archive[k].name
                 /\ NameIndex(archive[j].name) < NameIndex(archive[k].name)

\* every cue of the document was written
C8_Witness ==
    /\ pc = "done"
    /\ Len(archive) = 2
    /\ archive[1].name = <<"subtitle_", "0", "0", "0", "1", ".tiff">>
    /\ archive[2].name = <<"subtitle_", "0", "0", "0", "2", ".tiff">>

FontCandidates == <<"Amiri", "Arial", "default">>
Logged(rec) == \E i \in 1..Len(fontLog) : fontLog[i] = rec

FontOrder ==
    /\ Len(fontTried) <= Len(FontCandidates)
    /\ fontTried = SubSeq(FontCandidates, 1, Len(fontTried))
    /\ font # "unset" => font = fontTried[Len(fontTried)]
    /\ fontPc = "ready" <=> font # "unset"
    /\ Len(fontTried) >= 2 => Logged(LogRec("warning", "Failed to load Amiri font"))
    /\ font = "default" <=> Logged(LogRec("warning", "Using default font"))
    /\ pc # "idle" => fontPc = "ready"

\* C9: the candidates are tried in the order Amiri, Arial, built-in
\* default; the font is the first that loads and a later one is tried only
\* after the earlier ones failed; the use of the default is logged as a
\* warning; once resolved the font is never assigned again.
C9_FontResolvedOnceInOrder ==
    /\ []FontOrder
    /\ [][font # "unset" => font' = font /\ fontTried' = fontTried]_vars

\* a request was served with the built-in default font
C9_Witness ==
    /\ font = "default"
    /\ fontTried = FontCandidates
    /\ pc = "done"
    /\ response.status = 200

\* C10: for a cue with n >= 1 retained lines the draw.text calls are issued
\* one per retained line in source order (every line when none of them
\* fails), line i at y = 480 - (26n + 10(n - 1)) - 20 + 36(i - 1), so the
\* last line ends 20 pixels above the bottom of the canvas.
C10_BottomAnchoredBlock ==
    Called =>
        LET n == Len(DisplayLines)
            k == Len(last.draws)
        IN  /\ k <= n
            /\ last.cause = "ok" => k = n /\ n >= 1
            /\ \A i \in 1..k :
                /\ last.draws[i].text = DisplayLines[i]
                /\ last.draws[i].y =
                       IMAGE_HEIGHT - (FONT_SIZE * n + LINE_SPACING * (n - 1)) - BOTTOM_MARGIN
                       + (FONT_SIZE + LINE_SPACING) * (i - 1)
            /\ k = n /\ n >= 1 => last.draws[n].y + FONT_SIZE = IMAGE_HEIGHT - BOTTOM_MARGIN

\* a cue of two retained lines was drawn, the first line at y = 398
C10_Witness ==
    /\ Called
    /\ last.cause = "ok"
    /\ Len(last.draws) = 2
    /\ last.draws[1].y = 398
    /\ last.draws[2].y = 434

====
